---- MODULE Spec2Model ----
(***************************************************************************)
(* The YouTube MCP tool server, in its two variants:                       *)
(*   "main"   - src/main.py   (six tools, results wrapped as [{type,data}])*)
(*   "main_2" - src/main_2.py (five tools, resources and prompt templates) *)
(* A state is one server process: its module-level globals, the upstream   *)
(* caption store, and the tool invocations (asyncio tasks) in progress.    *)
(* An action is one run of a handler from one suspension point (an await   *)
(* on aiohttp) to the next; the synchronous calls in between (the caption  *)
(* fetch, generate_content) are part of the action and are recorded in     *)
(* the invocation's call log in the order the code makes them.             *)
(* Text is a sequence of tokens, so that joining and formatting are        *)
(* computed, not assumed.                                                  *)
(***************************************************************************)
EXTENDS Integers, Sequences, FiniteSets, TLC

VARIABLES
    variant,          \* which server module is running
    GEMINI_API_KEY,   \* TRUE iff os.getenv("GEMINI_API_KEY") is truthy
    YOUTUBE_API_KEY,  \* TRUE iff os.getenv("YOUTUBE_API_KEY") is truthy
    genai_client,     \* 0 = None, n > 0 = the n-th genai.Client constructed
    clients_built,    \* number of genai.Client(...) constructions so far
    captions,         \* upstream caption store: video id -> segments or NoCaptions
    pc,               \* per task: where the invocation is suspended
    args,             \* per task: the tool and its arguments
    calls,            \* per task: outbound calls made by the invocation, in order
    locals,           \* per task: handler locals that live across an await
    result            \* per task: the outcome returned to the host

vars == <<variant, GEMINI_API_KEY, YOUTUBE_API_KEY, genai_client, clients_built,
          captions, pc, args, calls, locals, result>>

globals == <<variant, GEMINI_API_KEY, YOUTUBE_API_KEY, captions>>

----------------------------------------------------------------------------
(* Bounds *)

NumTasks == 1

Tasks == 1..NumTasks

----------------------------------------------------------------------------
(* Values *)

EmptyRec == [x \in {} |-> x]

NoCaptions == "NoCaptions"

MODEL_ID == "gemini-2.0-flash"

Seg(text, start, duration) == [text |-> text, start |-> start, duration |-> duration]

\* start and duration are in hundredths of a second
HelloWorld == <<Seg(<<"Hello">>, 0, 150), Seg(<<"world">>, 150, 225)>>
OneSeg == <<Seg(<<"a", " ", "b">>, 5, 1000)>>

VideoIds == {"abc123", "zzz999"}

CaptionStores ==
    { [v \in VideoIds |-> IF v = "abc123" THEN HelloWorld ELSE NoCaptions],
      [v \in VideoIds |-> IF v = "abc123" THEN OneSeg ELSE <<>>] }

Languages == {<<"en">>}

Queries == {<<"what", " ", "is", " ", "it">>}

MaxResultsInputs == {-1, 0, 1, 50, 51, 100}
MaxCommentsInputs == {-1, 0, 1, 100, 101}

\* max_results / max_comments as the caller passes them

SearchQueries == {"cats"}

\* dict.get(key, default)
Get(d, key, default) == IF key \in DOMAIN d THEN d[key] ELSE default

Min(a, b) == IF a <= b THEN a ELSE b

\* a provider error payload
ApiError == [error |-> [message |-> "quotaExceeded"]]

\* an HTTP exchange either raises (connection, JSON decoding) or yields a JSON object
Raised == [kind |-> "raised"]
Json(data) == [kind |-> "json", data |-> data]
\* a request whose answer the handler is still awaiting
Pending == [kind |-> "pending"]

HttpExc == <<"Cannot connect to host www.googleapis.com">>

\* generate_content raises, or answers with response.text "" , None (absent) or text
GenTexts == {<<>>, <<"- point one">>}
GenOutcomes == {Raised, Json(EmptyRec)} \cup {Json([text |-> x]) : x \in GenTexts}

SearchItem(v) == [id |-> [videoId |-> v]]

CandidateLists == {<<>>, <<"v1">>, <<"v2", "v1">>}

SearchResponses ==
    {Raised, Json(ApiError), Json(EmptyRec)}
        \cup {Json([items |-> [i \in 1..Len(ids) |-> SearchItem(ids[i])]]) : ids \in CandidateLists}

StatsChoices ==
    { [viewCount |-> "10", likeCount |-> "2", commentCount |-> "1"],
      [likeCount |-> "2"],
      EmptyRec }

DetailItem(v, stats) ==
    [id |-> v,
     snippet |-> [title |-> <<"title-", v>>,
                  description |-> <<"about-", v>>,
                  thumbnails |-> [high |-> [url |-> <<"https://i.ytimg.com/vi/", v, "/hq.jpg">>]],
                  channelTitle |-> "channel",
                  channelId |-> "UC1",
                  publishedAt |-> "2024-01-01T00:00:00Z"],
     statistics |-> stats,
     contentDetails |-> [duration |-> "PT1M"]]

\* what the video-detail endpoint may answer for the ids asked: an error, no
\* items, or one item per id it still knows, in the order it chooses
DetailResponses(ids) ==
    {Raised, Json(ApiError), Json(EmptyRec), Json([items |-> <<>>])}
        \cup {Json([items |-> <<DetailItem(ids[Len(ids)], st)>>]) : st \in StatsChoices}
        \cup {Json([items |-> <<DetailItem(ids[1], st), DetailItem(ids[Len(ids)], EmptyRec)>>]) :
                st \in StatsChoices}

CommentSnippet(author) ==
    [authorDisplayName |-> author,
     textDisplay |-> "nice",
     textOriginal |-> "nice",
     likeCount |-> 3,
     publishedAt |-> "2024-01-02T00:00:00Z",
     updatedAt |-> "2024-01-02T00:00:00Z"]

CommentThread(author) == [snippet |-> [topLevelComment |-> [snippet |-> CommentSnippet(author)]]]

CommentResponses ==
    {Raised, Json(ApiError), Json(EmptyRec), Json([items |-> <<>>]),
     Json([items |-> <<CommentThread("ann")>>]),
     Json([items |-> <<CommentThread("bob"), CommentThread("ann")>>])}

LikesResponses ==
    {Raised, Json(ApiError), Json(EmptyRec), Json([items |-> <<>>])}
        \cup {Json([items |-> <<[statistics |-> st]>>]) : st \in StatsChoices}

\* what the video-detail endpoint may answer for one id (main_2.py:50-59)
MetaResponses(video_id) ==
    {Raised, Json(ApiError), Json(EmptyRec), Json([items |-> <<>>])}
        \cup {Json([items |-> <<DetailItem(video_id, st)>>]) : st \in StatsChoices}

\* datetime.now().isoformat(), as the clock reads when the handler runs
Timestamps == {"2024-05-01T10:00:00", "2024-05-01T10:00:07"}

----------------------------------------------------------------------------
(* str.join *)

RECURSIVE Join(_, _)
Join(parts, sep) ==
    IF parts = <<>> THEN <<>>
    ELSE IF Len(parts) = 1 THEN parts[1]
    ELSE parts[1] \o sep \o Join(Tail(parts), sep)

Texts(segments) == [i \in 1..Len(segments) |-> segments[i].text]

----------------------------------------------------------------------------
(* Outcomes and call records *)

NoResult == [status |-> "none"]

\* the envelope with its tag under another key
Envelope_untyped(type, data) ==
    [status |-> "ok", wrapped |-> TRUE, elems |-> <<[kind |-> type, data |-> data]>>]

\* main.py returns a list holding one {type, data} dictionary
Envelope(type, data) ==
    [status |-> "ok", wrapped |-> TRUE, elems |-> <<[type |-> type, data |-> data]>>]

\* a ToolError: the handler's prefix followed by str(e)
ToolError(prefix, detail) ==
    [status |-> "error", message |-> <<prefix>> \o detail]

\* an outbound call: the endpoint, what was sent, and what came back
Call(api, params) == [api |-> api, params |-> params, reply |-> Pending]

Replied(call, reply) == [call EXCEPT !.reply = reply]

\* the awaited (last) call of a log gets its answer
Answer(cs, reply) == [cs EXCEPT ![Len(cs)] = Replied(cs[Len(cs)], reply)]

Idle == [op |-> "none"]

----------------------------------------------------------------------------
(* YouTubeTranscriptApi.get_transcript: reads the caption store *)

FetchRaises(video_id) == captions[video_id] = NoCaptions

TranscriptCall(video_id, languages) ==
    Call("transcript", [video_id |-> video_id, languages |-> languages])

\* the fetch as it ends: the library raises, or returns the stored segments
Fetch(video_id, languages) ==
    Replied(TranscriptCall(video_id, languages),
            IF FetchRaises(video_id) THEN Raised
            ELSE Json([segments |-> captions[video_id]]))

\* str(e) of the exception the transcript library raises
TranscriptExc(video_id) == <<"Could not retrieve a transcript for the video ", video_id>>

----------------------------------------------------------------------------
Finish(t, cs, r) ==
    /\ pc' = [pc EXCEPT ![t] = "done"]
    /\ calls' = [calls EXCEPT ![t] = cs]
    /\ result' = [result EXCEPT ![t] = r]

(* main.py get_transcript, as a value: <<calls made, outcome>> *)
do_get_transcript_trimmed(video_id, languages) ==
    IF FetchRaises(video_id)
    THEN [calls |-> <<Fetch(video_id, languages)>>,
          outcome |-> ToolError("Transcript error: ", TranscriptExc(video_id))]
    ELSE [calls |-> <<Fetch(video_id, languages)>>,
          outcome |-> Envelope("transcript",
                        [video_id |-> video_id,
                         segments |-> SubSeq(captions[video_id], 1, Len(captions[video_id]) - 1),
                         languages |-> languages])]

do_get_transcript(video_id, languages) ==
    IF FetchRaises(video_id)
    THEN [calls |-> <<Fetch(video_id, languages)>>,
          outcome |-> ToolError("Transcript error: ", TranscriptExc(video_id))]
    ELSE [calls |-> <<Fetch(video_id, languages)>>,
          outcome |-> Envelope("transcript",
                        [video_id |-> video_id,
                         segments |-> captions[video_id],
                         languages |-> languages])]

get_transcript(t) ==
    /\ variant = "main"
    /\ pc[t] = "idle"
    /\ \E video_id \in VideoIds, languages \in Languages :
         LET r == do_get_transcript(video_id, languages) IN
         /\ args' = [args EXCEPT ![t] =
                [op |-> "get-transcript", video_id |-> video_id, languages |-> languages]]
         /\ Finish(t, r.calls, r.outcome)
    /\ UNCHANGED <<globals, genai_client, clients_built, locals>>

----------------------------------------------------------------------------
(* The generation provider *)

GenerateCall(client, prompt) ==
    Call("generate", [client |-> client, model |-> MODEL_ID, prompt |-> prompt])

\* "response.text is None": only the absent payload counts as empty
EmptyText_none_only(gen) == "text" \notin DOMAIN gen.data

\* "not response.text": the payload is absent (None) or the empty string
EmptyText(gen) == Get(gen.data, "text", <<>>) = <<>>

GenExc == <<"generate_content failed">>

\* main.py:98-99, the lazy construction of the shared handle
EnsureClient_always(client) == clients_built + 1

EnsureClient(client) == IF client = 0 THEN clients_built + 1 ELSE client

\* the segment texts run together without a separator
transcript_text_unspaced(segments) == Join(Texts(segments), <<>>)

\* main.py:102 and main.py:160: " ".join of the segment texts
transcript_text(segments) == Join(Texts(segments), <<" ">>)

SummaryPrompt(transcript) ==
    <<"Summarize this YouTube video transcript in 3-5 bullet points:\n\n">> \o transcript

QueryPrompt(transcript, query) ==
    <<"The following is a transcript from a YouTube video:\n Transcript:\n">>
        \o transcript
        \o <<"\n\n Based only on the information in this transcript, please answer the following question:\n">>
        \o query
        \o <<"\n\n If the transcript doesn't contain information to answer this question, please state that clearly.\n">>

(* main.py summarize_transcript as a value: the calls made, the outcome and
   the handle left in genai_client. gen is what the provider answers. *)
do_summarize_transcript(video_id, gen) ==
    IF ~GEMINI_API_KEY
    THEN [calls |-> <<>>, client |-> genai_client,
          outcome |-> ToolError("Summarization error: ",
                        <<"GEMINI_API_KEY environment variable is not set">>)]
    ELSE
    LET client == EnsureClient(genai_client)
        fetched == do_get_transcript(video_id, <<"en">>)
    IN  IF fetched.outcome.status = "error"
        THEN [calls |-> fetched.calls, client |-> client,
              outcome |-> ToolError("Summarization error: ", fetched.outcome.message)]
        ELSE
        LET transcript == transcript_text(fetched.outcome.elems[1].data.segments)
            cs == fetched.calls \o <<Replied(GenerateCall(client, SummaryPrompt(transcript)), gen)>>
        IN  IF gen.kind = "raised"
            THEN [calls |-> cs, client |-> client,
                  outcome |-> ToolError("Summarization error: ", GenExc)]
            ELSE IF EmptyText(gen)
            THEN [calls |-> cs, client |-> client,
                  outcome |-> ToolError("Summarization error: ",
                                <<"No summary generated - empty response from Gemini">>)]
            ELSE [calls |-> cs, client |-> client,
                  outcome |-> Envelope("summary",
                                [video_id |-> video_id,
                                 summary |-> gen.data.text,
                                 model |-> MODEL_ID])]

SetClient_rebuild(client) ==
    /\ genai_client' = clients_built + 1
    /\ clients_built' = clients_built + 1

SetClient(client) ==
    /\ genai_client' = client
    /\ clients_built' = IF client = genai_client THEN clients_built ELSE clients_built + 1

summarize_transcript(t) ==
    /\ variant = "main"
    /\ pc[t] = "idle"
    /\ \E video_id \in VideoIds, gen \in GenOutcomes :
         LET r == do_summarize_transcript(video_id, gen) IN
         /\ args' = [args EXCEPT ![t] = [op |-> "summarize", video_id |-> video_id]]
         /\ SetClient(r.client)
         /\ Finish(t, r.calls, r.outcome)
    /\ UNCHANGED <<globals, locals>>

(* main.py query_transcript *)
do_query_transcript(video_id, query, gen) ==
    IF ~GEMINI_API_KEY
    THEN [calls |-> <<>>, client |-> genai_client,
          outcome |-> ToolError("Query error: ",
                        <<"GEMINI_API_KEY environment variable is not set">>)]
    ELSE
    LET client == EnsureClient(genai_client)
        fetched == do_get_transcript(video_id, <<"en">>)
    IN  IF fetched.outcome.status = "error"
        THEN [calls |-> fetched.calls, client |-> client,
              outcome |-> ToolError("Query error: ", fetched.outcome.message)]
        ELSE
        LET transcript == transcript_text(fetched.outcome.elems[1].data.segments)
            cs == fetched.calls \o <<Replied(GenerateCall(client, QueryPrompt(transcript, query)), gen)>>
        IN  IF gen.kind = "raised"
            THEN [calls |-> cs, client |-> client,
                  outcome |-> ToolError("Query error: ", GenExc)]
            ELSE IF EmptyText(gen)
            THEN [calls |-> cs, client |-> client,
                  outcome |-> ToolError("Query error: ",
                                <<"No response generated - empty response from Gemini">>)]
            ELSE [calls |-> cs, client |-> client,
                  outcome |-> Envelope("query-response",
                                [video_id |-> video_id,
                                 query |-> query,
                                 response |-> gen.data.text,
                                 model |-> MODEL_ID])]

query_transcript(t) ==
    /\ variant = "main"
    /\ pc[t] = "idle"
    /\ \E video_id \in VideoIds, query \in Queries, gen \in GenOutcomes :
         LET r == do_query_transcript(video_id, query, gen) IN
         /\ args' = [args EXCEPT ![t] =
                [op |-> "query", video_id |-> video_id, query |-> query]]
         /\ SetClient(r.client)
         /\ Finish(t, r.calls, r.outcome)
    /\ UNCHANGED <<globals, locals>>

----------------------------------------------------------------------------
(* main.py search_videos: three runs, split at the two awaited HTTP exchanges *)

NoKey == <<"YOUTUBE_API_KEY environment variable is not set">>

ApiErrorText(data) == <<"YouTube API error: ", data.error.message>>

Suspend(t, at, cs) ==
    /\ pc' = [pc EXCEPT ![t] = at]
    /\ calls' = [calls EXCEPT ![t] = cs]
    /\ UNCHANGED result

\* the limit passed through without the cap
SearchLimit_uncapped(max_results) == max_results

\* the maxResults parameter of the stage-1 request (main.py:241)
SearchLimit(max_results) == Min(max_results, 50)

SearchCall(query, max_results) ==
    Call("search", [part |-> "snippet", q |-> query,
                    maxResults |-> SearchLimit(max_results), type |-> "video"])

Ids(texts) == [i \in 1..Len(texts) |-> <<texts[i]>>]

\* a detail request that asks for the first candidate only
DetailCall_first(video_ids) ==
    Call("videos", [part |-> "snippet,statistics,contentDetails", id |-> <<video_ids[1]>>])

DetailCall(video_ids) ==
    Call("videos", [part |-> "snippet,statistics,contentDetails",
                    id |-> Join(Ids(video_ids), <<",">>)])

search_videos(t) ==
    /\ variant = "main"
    /\ pc[t] = "idle"
    /\ \E query \in SearchQueries, max_results \in MaxResultsInputs :
         /\ args' = [args EXCEPT ![t] =
                [op |-> "search", query |-> query, max_results |-> max_results]]
         /\ IF ~YOUTUBE_API_KEY
            THEN Finish(t, <<>>, ToolError("Search error: ", NoKey))
            ELSE Suspend(t, "search1", <<SearchCall(query, max_results)>>)
    /\ UNCHANGED <<globals, genai_client, clients_built, locals>>

VideoIdsOf(search_data) ==
    LET items == Get(search_data, "items", <<>>)
    IN  [i \in 1..Len(items) |-> items[i].id.videoId]

SearchEnvelope(query, videos) ==
    Envelope("search-results",
             [query |-> query, videos |-> videos, total_results |-> Len(videos)])

search_videos_stage1(t) ==
    /\ variant = "main"
    /\ pc[t] = "search1"
    /\ \E resp \in SearchResponses :
         IF resp.kind = "raised"
         THEN /\ Finish(t, Answer(calls[t], resp), ToolError("Search error: ", HttpExc))
              /\ UNCHANGED locals
         ELSE IF "error" \in DOMAIN resp.data
         THEN /\ Finish(t, Answer(calls[t], resp), ToolError("Search error: ", ApiErrorText(resp.data)))
              /\ UNCHANGED locals
         ELSE LET video_ids == VideoIdsOf(resp.data) IN
              IF video_ids = <<>>
              THEN /\ Finish(t, Answer(calls[t], resp), SearchEnvelope(args[t].query, <<>>))
                   /\ UNCHANGED locals
              ELSE /\ Suspend(t, "search2", Append(Answer(calls[t], resp), DetailCall(video_ids)))
                   /\ locals' = [locals EXCEPT ![t] = [video_ids |-> video_ids]]
    /\ UNCHANGED <<globals, genai_client, clients_built, args>>

\* main.py:276-288
Video_nodefault(item) ==
    [id |-> item.id,
     title |-> item.snippet.title,
     description |-> item.snippet.description,
     thumbnail |-> item.snippet.thumbnails.high.url,
     channel_title |-> item.snippet.channelTitle,
     channel_id |-> item.snippet.channelId,
     published_at |-> item.snippet.publishedAt,
     views |-> Get(item.statistics, "viewCount", ""),
     likes |-> Get(item.statistics, "likeCount", ""),
     comments |-> Get(item.statistics, "commentCount", ""),
     duration |-> item.contentDetails.duration]

Video(item) ==
    [id |-> item.id,
     title |-> item.snippet.title,
     description |-> item.snippet.description,
     thumbnail |-> item.snippet.thumbnails.high.url,
     channel_title |-> item.snippet.channelTitle,
     channel_id |-> item.snippet.channelId,
     published_at |-> item.snippet.publishedAt,
     views |-> Get(item.statistics, "viewCount", "0"),
     likes |-> Get(item.statistics, "likeCount", "0"),
     comments |-> Get(item.statistics, "commentCount", "0"),
     duration |-> item.contentDetails.duration]

Videos(videos_data) ==
    LET items == Get(videos_data, "items", <<>>)
    IN  [i \in 1..Len(items) |-> Video(items[i])]

search_videos_stage2(t) ==
    /\ variant = "main"
    /\ pc[t] = "search2"
    /\ \E resp \in DetailResponses(locals[t].video_ids) :
         IF resp.kind = "raised"
         THEN Finish(t, Answer(calls[t], resp), ToolError("Search error: ", HttpExc))
         ELSE Finish(t, Answer(calls[t], resp), SearchEnvelope(args[t].query, Videos(resp.data)))
    /\ UNCHANGED <<globals, genai_client, clients_built, args, locals>>

----------------------------------------------------------------------------
(* main.py get_comments *)

\* the limit passed through without the cap
CommentLimit_uncapped(max_comments) == max_comments

\* the maxResults parameter of the comment-thread request (main.py:344)
CommentLimit(max_comments) == Min(max_comments, 100)

CommentCall(video_id, max_comments) ==
    Call("commentThreads", [part |-> "snippet", videoId |-> video_id,
                            maxResults |-> CommentLimit(max_comments)])

get_comments(t) ==
    /\ variant = "main"
    /\ pc[t] = "idle"
    /\ \E video_id \in VideoIds, max_comments \in MaxCommentsInputs :
         /\ args' = [args EXCEPT ![t] =
                [op |-> "get-comments", video_id |-> video_id, max_comments |-> max_comments]]
         /\ IF ~YOUTUBE_API_KEY
            THEN Finish(t, <<>>, ToolError("Comments error: ", NoKey))
            ELSE Suspend(t, "comments", <<CommentCall(video_id, max_comments)>>)
    /\ UNCHANGED <<globals, genai_client, clients_built, locals>>

TopLevel(data) ==
    LET items == Get(data, "items", <<>>)
    IN  [i \in 1..Len(items) |-> items[i].snippet.topLevelComment.snippet]

get_comments_response(t) ==
    /\ variant = "main"
    /\ pc[t] = "comments"
    /\ \E resp \in CommentResponses :
         IF resp.kind = "raised"
         THEN Finish(t, Answer(calls[t], resp), ToolError("Comments error: ", HttpExc))
         ELSE IF "error" \in DOMAIN resp.data
         THEN Finish(t, Answer(calls[t], resp), ToolError("Comments error: ", ApiErrorText(resp.data)))
         ELSE Finish(t, Answer(calls[t], resp),
                Envelope("comments",
                         [video_id |-> args[t].video_id,
                          comments |-> TopLevel(resp.data),
                          total_count |-> Len(Get(resp.data, "items", <<>>))]))
    /\ UNCHANGED <<globals, genai_client, clients_built, args, locals>>

----------------------------------------------------------------------------
(* main.py get_likes *)

LikesCall(video_id) == Call("videos", [part |-> "statistics", id |-> <<video_id>>])

get_likes(t) ==
    /\ variant = "main"
    /\ pc[t] = "idle"
    /\ \E video_id \in VideoIds :
         /\ args' = [args EXCEPT ![t] = [op |-> "get-likes", video_id |-> video_id]]
         /\ IF ~YOUTUBE_API_KEY
            THEN Finish(t, <<>>, ToolError("Likes error: ", NoKey))
            ELSE Suspend(t, "likes", <<LikesCall(video_id)>>)
    /\ UNCHANGED <<globals, genai_client, clients_built, locals>>

\* the not-found message without the id
NotFound_anonymous(video_id) == <<"Video not found">>

\* main.py:403
NotFound(video_id) == <<"Video not found: ", video_id>>

\* "not data.get('items')": the key is absent or the list is empty
NoItems(data) == Get(data, "items", <<>>) = <<>>

get_likes_response(t) ==
    /\ variant = "main"
    /\ pc[t] = "likes"
    /\ \E resp \in LikesResponses :
         IF resp.kind = "raised"
         THEN Finish(t, Answer(calls[t], resp), ToolError("Likes error: ", HttpExc))
         ELSE IF "error" \in DOMAIN resp.data
         THEN Finish(t, Answer(calls[t], resp), ToolError("Likes error: ", ApiErrorText(resp.data)))
         ELSE IF NoItems(resp.data)
         THEN Finish(t, Answer(calls[t], resp),
                ToolError("Likes error: ", NotFound(args[t].video_id)))
         ELSE Finish(t, Answer(calls[t], resp),
                Envelope("stats",
                         [video_id |-> args[t].video_id,
                          likes |-> Get(resp.data.items[1].statistics, "likeCount", 0)]))
    /\ UNCHANGED <<globals, genai_client, clients_built, args, locals>>

----------------------------------------------------------------------------
(* main_2.py: results are returned as bare dictionaries *)

Payload(data) == [status |-> "ok", wrapped |-> FALSE, elems |-> <<data>>]

get_transcript_2(t) ==
    /\ variant = "main_2"
    /\ pc[t] = "idle"
    /\ \E video_id \in VideoIds, languages \in Languages, now \in Timestamps :
         /\ args' = [args EXCEPT ![t] =
                [op |-> "get-transcript", video_id |-> video_id, languages |-> languages]]
         /\ IF FetchRaises(video_id)
            THEN Finish(t, <<Fetch(video_id, languages)>>,
                    ToolError("Failed to retrieve transcript: ", TranscriptExc(video_id)))
            ELSE Finish(t, <<Fetch(video_id, languages)>>,
                    Payload([video_id |-> video_id,
                             segments |-> captions[video_id],
                             languages |-> languages,
                             retrieved_at |-> now]))
    /\ UNCHANGED <<globals, genai_client, clients_built, locals>>

\* format(x, ".2f") of a time given in hundredths of a second
Fmt2f(n) == <<ToString(n \div 100), ".", ToString((n % 100) \div 10), ToString(n % 10)>>

\* main_2.py:39, one line per segment
Line(seg) ==
    <<"[">> \o Fmt2f(seg.start) \o <<"-">> \o Fmt2f(seg.start + seg.duration)
        \o <<"]", " ">> \o seg.text

Lines(segments) == [i \in 1..Len(segments) |-> Line(segments[i])]

(* main_2.py transcript_resource, as a value *)
transcript_resource(video_id) ==
    IF FetchRaises(video_id)
    THEN [calls |-> <<Fetch(video_id, <<"en">>)>>, raised |-> TRUE,
          text |-> <<"Failed to retrieve transcript: ">> \o TranscriptExc(video_id)]
    ELSE [calls |-> <<Fetch(video_id, <<"en">>)>>, raised |-> FALSE,
          text |-> Join(Lines(captions[video_id]), <<"\n">>)]

MetadataCall(video_id) ==
    Call("videos", [part |-> "snippet,statistics,contentDetails", id |-> <<video_id>>])

(* main_2.py video_metadata_resource: the string it returns for a response *)
video_metadata_text(video_id, resp) ==
    IF resp.kind = "raised"
    THEN <<"Error retrieving video metadata: ">> \o HttpExc
    ELSE IF "error" \in DOMAIN resp.data
    THEN ApiErrorText(resp.data)
    ELSE IF NoItems(resp.data)
    THEN <<"No video found with ID: ", video_id>>
    ELSE LET item == resp.data.items[1] IN
         <<"Title: ">> \o item.snippet.title
            \o <<"Channel: ", item.snippet.channelTitle,
                 "Published: ", item.snippet.publishedAt,
                 "Description: ">> \o item.snippet.description
            \o <<"Duration: ", item.contentDetails.duration,
                 "Views: ", Get(item.statistics, "viewCount", "0"),
                 "Likes: ", Get(item.statistics, "likeCount", "0"),
                 "Comments: ", Get(item.statistics, "commentCount", "0")>>

NotConfigured == <<"YouTube API key not configured">>

(* main_2.py summary_prompt and query_prompt: the template filled in *)
summary_prompt(metadata, transcript) ==
    <<"Summarize this YouTube video based on its transcript:\n\n">> \o metadata
        \o <<"\n\nTranscript:\n">> \o transcript
        \o <<"\n\nPlease provide:\n1. A concise 2-3 sentence summary\n2. 3-5 key points in bullet form\n3. Any technical details mentioned\n4. The main takeaways from this video\n">>

query_prompt(metadata, query, transcript) ==
    <<"Answer this question based ONLY on the content of this YouTube video:\n\n">> \o metadata
        \o <<"\n\nQuestion: ">> \o query
        \o <<"\n\nTranscript:\n">> \o transcript
        \o <<"\n\nIf the transcript doesn't contain information to answer this question, please state that clearly.\n">>

NoClient == <<"GEMINI_API_KEY environment variable is not set or client not initialized">>

(* main_2.py summarize_transcript from line 152 on: prompt_text is in hand *)
summarize_tail(video_id, prompt_text, cs, gen) ==
    IF genai_client = 0
    THEN [calls |-> cs, outcome |-> ToolError("Summarization failed: ", NoClient)]
    ELSE LET cs2 == Append(cs, Replied(GenerateCall(genai_client, prompt_text), gen)) IN
         IF gen.kind = "raised"
         THEN [calls |-> cs2, outcome |-> ToolError("Summarization failed: ", GenExc)]
         ELSE IF EmptyText(gen)
         THEN [calls |-> cs2,
               outcome |-> ToolError("Summarization failed: ",
                             <<"No summary generated - empty response from Gemini">>)]
         ELSE [calls |-> cs2,
               outcome |-> Payload([video_id |-> video_id,
                                    summary |-> gen.data.text,
                                    model |-> MODEL_ID])]

(* main_2.py query_transcript from line 180 on *)
query_tail(video_id, query, prompt_text, cs, gen) ==
    IF genai_client = 0
    THEN [calls |-> cs, outcome |-> ToolError("Query failed: ", NoClient)]
    ELSE LET cs2 == Append(cs, Replied(GenerateCall(genai_client, prompt_text), gen)) IN
         IF gen.kind = "raised"
         THEN [calls |-> cs2, outcome |-> ToolError("Query failed: ", GenExc)]
         ELSE IF EmptyText(gen)
         THEN [calls |-> cs2,
               outcome |-> ToolError("Query failed: ",
                             <<"No response generated - empty response from Gemini">>)]
         ELSE [calls |-> cs2,
               outcome |-> Payload([video_id |-> video_id,
                                    query |-> query,
                                    response |-> gen.data.text,
                                    model |-> MODEL_ID])]

FinishWith(t, r) == Finish(t, r.calls, r.outcome)

summarize_transcript_2(t) ==
    /\ variant = "main_2"
    /\ pc[t] = "idle"
    /\ \E video_id \in VideoIds, gen \in GenOutcomes :
         LET tr == transcript_resource(video_id) IN
         /\ args' = [args EXCEPT ![t] = [op |-> "summarize", video_id |-> video_id]]
         /\ IF tr.raised
            THEN \* summary_prompt swallows the failure and returns its text
                 /\ FinishWith(t, summarize_tail(video_id,
                        <<"Error creating summary prompt: ">> \o tr.text, tr.calls, gen))
                 /\ UNCHANGED locals
            ELSE IF ~YOUTUBE_API_KEY
            THEN /\ FinishWith(t, summarize_tail(video_id,
                        summary_prompt(NotConfigured, tr.text), tr.calls, gen))
                 /\ UNCHANGED locals
            ELSE /\ Suspend(t, "summarize_meta", Append(tr.calls, MetadataCall(video_id)))
                 /\ locals' = [locals EXCEPT ![t] = [transcript |-> tr.text]]
    /\ UNCHANGED <<globals, genai_client, clients_built>>

summarize_transcript_2_resume(t) ==
    /\ variant = "main_2"
    /\ pc[t] = "summarize_meta"
    /\ \E resp \in MetaResponses(args[t].video_id), gen \in GenOutcomes :
         FinishWith(t, summarize_tail(args[t].video_id,
            summary_prompt(video_metadata_text(args[t].video_id, resp), locals[t].transcript),
            Answer(calls[t], resp), gen))
    /\ UNCHANGED <<globals, genai_client, clients_built, args, locals>>

query_transcript_2(t) ==
    /\ variant = "main_2"
    /\ pc[t] = "idle"
    /\ \E video_id \in VideoIds, query \in Queries, gen \in GenOutcomes :
         LET tr == transcript_resource(video_id) IN
         /\ args' = [args EXCEPT ![t] =
                [op |-> "query", video_id |-> video_id, query |-> query]]
         /\ IF tr.raised
            THEN /\ FinishWith(t, query_tail(video_id, query,
                        <<"Error creating query prompt: ">> \o tr.text, tr.calls, gen))
                 /\ UNCHANGED locals
            ELSE IF ~YOUTUBE_API_KEY
            THEN /\ FinishWith(t, query_tail(video_id, query,
                        query_prompt(NotConfigured, query, tr.text), tr.calls, gen))
                 /\ UNCHANGED locals
            ELSE /\ Suspend(t, "query_meta", Append(tr.calls, MetadataCall(video_id)))
                 /\ locals' = [locals EXCEPT ![t] = [transcript |-> tr.text]]
    /\ UNCHANGED <<globals, genai_client, clients_built>>

query_transcript_2_resume(t) ==
    /\ variant = "main_2"
    /\ pc[t] = "query_meta"
    /\ \E resp \in MetaResponses(args[t].video_id), gen \in GenOutcomes :
         FinishWith(t, query_tail(args[t].video_id, args[t].query,
            query_prompt(video_metadata_text(args[t].video_id, resp), args[t].query,
                         locals[t].transcript),
            Answer(calls[t], resp), gen))
    /\ UNCHANGED <<globals, genai_client, clients_built, args, locals>>

----------------------------------------------------------------------------
(* main_2.py search_videos *)

\* the maxResults parameter of the stage-1 request (main_2.py:214)
SearchLimit_2(max_results) == Min(max_results, 50)

SearchCall_2(query, max_results) ==
    Call("search", [part |-> "snippet", q |-> query,
                    maxResults |-> SearchLimit_2(max_results), type |-> "video"])

search_videos_2(t) ==
    /\ variant = "main_2"
    /\ pc[t] = "idle"
    /\ \E query \in SearchQueries, max_results \in MaxResultsInputs :
         /\ args' = [args EXCEPT ![t] =
                [op |-> "search", query |-> query, max_results |-> max_results]]
         /\ IF ~YOUTUBE_API_KEY
            THEN Finish(t, <<>>, ToolError("Search failed: ", NoKey))
            ELSE Suspend(t, "search1", <<SearchCall_2(query, max_results)>>)
    /\ UNCHANGED <<globals, genai_client, clients_built, locals>>

SearchPayload(query, videos) ==
    Payload([query |-> query, videos |-> videos, total_results |-> Len(videos)])

search_videos_2_stage1(t) ==
    /\ variant = "main_2"
    /\ pc[t] = "search1"
    /\ \E resp \in SearchResponses :
         IF resp.kind = "raised"
         THEN /\ Finish(t, Answer(calls[t], resp), ToolError("Search failed: ", HttpExc))
              /\ UNCHANGED locals
         ELSE IF "error" \in DOMAIN resp.data
         THEN /\ Finish(t, Answer(calls[t], resp), ToolError("Search failed: ", ApiErrorText(resp.data)))
              /\ UNCHANGED locals
         ELSE LET video_ids == VideoIdsOf(resp.data) IN
              IF video_ids = <<>>
              THEN /\ Finish(t, Answer(calls[t], resp), SearchPayload(args[t].query, <<>>))
                   /\ UNCHANGED locals
              ELSE /\ Suspend(t, "search2", Append(Answer(calls[t], resp), DetailCall(video_ids)))
                   /\ locals' = [locals EXCEPT ![t] = [video_ids |-> video_ids]]
    /\ UNCHANGED <<globals, genai_client, clients_built, args>>

\* main_2.py:251-266
Video_2(item) ==
    [id |-> item.id,
     title |-> item.snippet.title,
     description |-> item.snippet.description,
     stats |-> [views |-> Get(item.statistics, "viewCount", "0"),
                likes |-> Get(item.statistics, "likeCount", "0"),
                comments |-> Get(item.statistics, "commentCount", "0")],
     duration |-> item.contentDetails.duration,
     channel |-> [title |-> item.snippet.channelTitle, id |-> item.snippet.channelId],
     published_at |-> item.snippet.publishedAt]

Videos_2(videos_data) ==
    LET items == Get(videos_data, "items", <<>>)
    IN  [i \in 1..Len(items) |-> Video_2(items[i])]

search_videos_2_stage2(t) ==
    /\ variant = "main_2"
    /\ pc[t] = "search2"
    /\ \E resp \in DetailResponses(locals[t].video_ids) :
         IF resp.kind = "raised"
         THEN Finish(t, Answer(calls[t], resp), ToolError("Search failed: ", HttpExc))
         ELSE Finish(t, Answer(calls[t], resp), SearchPayload(args[t].query, Videos_2(resp.data)))
    /\ UNCHANGED <<globals, genai_client, clients_built, args, locals>>

----------------------------------------------------------------------------
(* main_2.py get_comments *)

\* the maxResults parameter of the comment-thread request (main_2.py:290)
CommentLimit_2(max_comments) == Min(max_comments, 100)

CommentCall_2(video_id, max_comments) ==
    Call("commentThreads", [part |-> "snippet", videoId |-> video_id,
                            maxResults |-> CommentLimit_2(max_comments)])

get_comments_2(t) ==
    /\ variant = "main_2"
    /\ pc[t] = "idle"
    /\ \E video_id \in VideoIds, max_comments \in MaxCommentsInputs :
         /\ args' = [args EXCEPT ![t] =
                [op |-> "get-comments", video_id |-> video_id, max_comments |-> max_comments]]
         /\ IF ~YOUTUBE_API_KEY
            THEN Finish(t, <<>>, ToolError("Failed to get comments: ", NoKey))
            ELSE Suspend(t, "comments", <<CommentCall_2(video_id, max_comments)>>)
    /\ UNCHANGED <<globals, genai_client, clients_built, locals>>

\* main_2.py:301-309
Comments_2(data) ==
    LET items == Get(data, "items", <<>>)
    IN  [i \in 1..Len(items) |->
            LET c == items[i].snippet.topLevelComment.snippet IN
            [author |-> c.authorDisplayName,
             text |-> c.textDisplay,
             published_at |-> c.publishedAt,
             likes |-> c.likeCount]]

get_comments_2_response(t) ==
    /\ variant = "main_2"
    /\ pc[t] = "comments"
    /\ \E resp \in CommentResponses :
         IF resp.kind = "raised"
         THEN Finish(t, Answer(calls[t], resp), ToolError("Failed to get comments: ", HttpExc))
         ELSE IF "error" \in DOMAIN resp.data
         THEN Finish(t, Answer(calls[t], resp),
                ToolError("Failed to get comments: ", ApiErrorText(resp.data)))
         ELSE Finish(t, Answer(calls[t], resp),
                Payload([video_id |-> args[t].video_id,
                         comments |-> Comments_2(resp.data)]))
    /\ UNCHANGED <<globals, genai_client, clients_built, args, locals>>

----------------------------------------------------------------------------
(* The host takes the outcome; the task slot is free for the next call *)
Return(t) ==
    /\ pc[t] = "done"
    /\ pc' = [pc EXCEPT ![t] = "idle"]
    /\ args' = [args EXCEPT ![t] = Idle]
    /\ calls' = [calls EXCEPT ![t] = <<>>]
    /\ locals' = [locals EXCEPT ![t] = EmptyRec]
    /\ result' = [result EXCEPT ![t] = NoResult]
    /\ UNCHANGED <<globals, genai_client, clients_built>>

----------------------------------------------------------------------------
Init ==
    /\ variant \in {"main", "main_2"}
    /\ GEMINI_API_KEY \in BOOLEAN
    /\ YOUTUBE_API_KEY \in BOOLEAN
    \* main.py:32 starts with None; main_2.py:25-27 constructs at import if the key is set
    /\ genai_client = IF variant = "main_2" /\ GEMINI_API_KEY THEN 1 ELSE 0
    /\ clients_built = genai_client
    /\ captions \in CaptionStores
    /\ pc = [t \in Tasks |-> "idle"]
    /\ args = [t \in Tasks |-> Idle]
    /\ calls = [t \in Tasks |-> <<>>]
    /\ locals = [t \in Tasks |-> EmptyRec]
    /\ result = [t \in Tasks |-> NoResult]

Next ==
    \E t \in Tasks :
        \/ get_transcript(t)
        \/ summarize_transcript(t)
        \/ query_transcript(t)
        \/ search_videos(t)
        \/ search_videos_stage1(t)
        \/ search_videos_stage2(t)
        \/ get_comments(t)
        \/ get_comments_response(t)
        \/ get_likes(t)
        \/ get_likes_response(t)
        \/ get_transcript_2(t)
        \/ summarize_transcript_2(t)
        \/ summarize_transcript_2_resume(t)
        \/ query_transcript_2(t)
        \/ query_transcript_2_resume(t)
        \/ search_videos_2(t)
        \/ search_videos_2_stage1(t)
        \/ search_videos_2_stage2(t)
        \/ get_comments_2(t)
        \/ get_comments_2_response(t)
        \/ Return(t)

Spec == Init /\ [][Next]_vars

----------------------------------------------------------------------------
(* Concurrent invocations of the caption and generation tools.  The event
   loop runs one task at a time and may switch tasks wherever a handler
   awaits.  In main.py summarize_transcript and query_transcript await
   get_transcript after the client check (main.py:101, 159): the two halves
   around that await are separate steps here, so that another invocation
   can run between the construction of the client and its use. *)
NumConcurrent == 2
Concurrent == 1..NumConcurrent

NoneTypeExc == <<"'NoneType' object has no attribute 'models'">>

\* main.py:92-101: key check, lazy construction, up to the await
summarize_transcript_await(t) ==
    /\ variant = "main"
    /\ pc[t] = "idle"
    /\ \E video_id \in VideoIds :
         /\ args' = [args EXCEPT ![t] = [op |-> "summarize", video_id |-> video_id]]
         /\ IF ~GEMINI_API_KEY
            THEN /\ FinishWith(t, do_summarize_transcript(video_id, Raised))
                 /\ UNCHANGED <<genai_client, clients_built>>
            ELSE /\ SetClient(EnsureClient(genai_client))
                 /\ Suspend(t, "summarize_fetch", <<>>)
    /\ UNCHANGED <<globals, locals>>

\* main.py:101-126: the fetch, then generate_content on the global handle
summarize_transcript_resume(t) ==
    /\ variant = "main"
    /\ pc[t] = "summarize_fetch"
    /\ \E gen \in GenOutcomes :
         IF genai_client = 0 /\ ~FetchRaises(args[t].video_id)
         THEN Finish(t, <<Fetch(args[t].video_id, <<"en">>)>>,
                     ToolError("Summarization error: ", NoneTypeExc))
         ELSE FinishWith(t, do_summarize_transcript(args[t].video_id, gen))
    /\ UNCHANGED <<globals, genai_client, clients_built, args, locals>>

\* main.py:150-159
query_transcript_await(t) ==
    /\ variant = "main"
    /\ pc[t] = "idle"
    /\ \E video_id \in VideoIds, query \in Queries :
         /\ args' = [args EXCEPT ![t] =
                [op |-> "query", video_id |-> video_id, query |-> query]]
         /\ IF ~GEMINI_API_KEY
            THEN /\ FinishWith(t, do_query_transcript(video_id, query, Raised))
                 /\ UNCHANGED <<genai_client, clients_built>>
            ELSE /\ SetClient(EnsureClient(genai_client))
                 /\ Suspend(t, "query_fetch", <<>>)
    /\ UNCHANGED <<globals, locals>>

\* main.py:159-193
query_transcript_resume(t) ==
    /\ variant = "main"
    /\ pc[t] = "query_fetch"
    /\ \E gen \in GenOutcomes :
         IF genai_client = 0 /\ ~FetchRaises(args[t].video_id)
         THEN Finish(t, <<Fetch(args[t].video_id, <<"en">>)>>,
                     ToolError("Query error: ", NoneTypeExc))
         ELSE FinishWith(t, do_query_transcript(args[t].video_id, args[t].query, gen))
    /\ UNCHANGED <<globals, genai_client, clients_built, args, locals>>

InitConcurrent ==
    /\ variant \in {"main", "main_2"}
    /\ GEMINI_API_KEY \in BOOLEAN
    /\ YOUTUBE_API_KEY \in BOOLEAN
    /\ genai_client = IF variant = "main_2" /\ GEMINI_API_KEY THEN 1 ELSE 0
    /\ clients_built = genai_client
    /\ captions \in CaptionStores
    /\ pc = [t \in Concurrent |-> "idle"]
    /\ args = [t \in Concurrent |-> Idle]
    /\ calls = [t \in Concurrent |-> <<>>]
    /\ locals = [t \in Concurrent |-> EmptyRec]
    /\ result = [t \in Concurrent |-> NoResult]

NextConcurrent ==
    \E t \in Concurrent :
        \/ get_transcript(t)
        \/ summarize_transcript_await(t)
        \/ summarize_transcript_resume(t)
        \/ query_transcript_await(t)
        \/ query_transcript_resume(t)
        \/ get_transcript_2(t)
        \/ summarize_transcript_2(t)
        \/ summarize_transcript_2_resume(t)
        \/ query_transcript_2(t)
        \/ query_transcript_2_resume(t)
        \/ Return(t)

SpecConcurrent == InitConcurrent /\ [][NextConcurrent]_vars

----------------------------------------------------------------------------
(* Vocabulary of the properties *)

Done(t) == pc[t] = "done"
Ok(t) == Done(t) /\ result[t].status = "ok"
Failed(t) == Done(t) /\ result[t].status = "error"

Op(t) == args[t].op
Generative(t) == Op(t) \in {"summarize", "query"}

CallsTo(t, api) == {i \in 1..Len(calls[t]) : calls[t][i].api = api}

\* the envelope type the dispatcher table assigns to each operation
EnvelopeType(op) ==
    CASE op = "get-transcript" -> "transcript"
      [] op = "summarize" -> "summary"
      [] op = "query" -> "query-response"
      [] op = "search" -> "search-results"
      [] op = "get-comments" -> "comments"
      [] op = "get-likes" -> "stats"

\* the payload of a successful outcome, in either result shape
ResultData(t) ==
    IF result[t].wrapped THEN result[t].elems[1].data ELSE result[t].elems[1]

\* the invocation fetched the transcript and got segments
Fetched(t) ==
    \E j \in CallsTo(t, "transcript") : calls[t][j].reply.kind = "json"

\* needle occurs in hay as a contiguous run
Contains(hay, needle) ==
    \E k \in 0..(Len(hay) - Len(needle)) : SubSeq(hay, k + 1, k + Len(needle)) = needle

----------------------------------------------------------------------------
(* C1 as stated: in both variants, every successful invocation returns
   exactly one envelope whose type field is present and is the operation's. *)
C1_TypedEnvelopeInBothVariants ==
    \A t \in Tasks :
        Ok(t) =>
            /\ Len(result[t].elems) = 1
            /\ "type" \in DOMAIN result[t].elems[1]
            /\ result[t].elems[1].type = EnvelopeType(Op(t))

(* C1 amended: in variant main every successful invocation returns a list of
   exactly one envelope whose type is the operation's; in variant main_2 a
   successful invocation returns one bare dictionary that has no type field. *)
C1_TypedEnvelopeInMain ==
    \A t \in Tasks :
        Ok(t) =>
            /\ Len(result[t].elems) = 1
            /\ IF variant = "main"
               THEN /\ result[t].wrapped
                    /\ DOMAIN result[t].elems[1] = {"type", "data"}
                    /\ result[t].elems[1].type = EnvelopeType(Op(t))
               ELSE /\ ~result[t].wrapped
                    /\ "type" \notin DOMAIN result[t].elems[1]

C1_Witness ==
    \E t \in Tasks : variant = "main" /\ Ok(t) /\ Op(t) = "get-likes"

----------------------------------------------------------------------------
ConfigurationTexts ==
    {"GEMINI_API_KEY environment variable is not set",
     "GEMINI_API_KEY environment variable is not set or client not initialized"}

(* C2: summarize and query with no generation credential configured make no
   outbound call at all, and end in a configuration failure. *)
C2_NoCallWithoutCredential ==
    \A t \in Tasks :
        (Generative(t) /\ ~GEMINI_API_KEY) =>
            /\ calls[t] = <<>>
            /\ Done(t) => /\ Failed(t)
                          /\ result[t].message[2] \in ConfigurationTexts

----------------------------------------------------------------------------
(* C3: in summarize and query a generation call is made only after a
   transcript fetch that succeeded; an invocation whose transcript fetch
   failed makes no generation call and ends in a failure. *)
C3_NoGenerationAfterFailedFetch ==
    \A t \in Tasks :
        Generative(t) =>
            /\ \A i \in CallsTo(t, "generate") :
                 \E j \in 1..(i - 1) :
                    /\ calls[t][j].api = "transcript"
                    /\ calls[t][j].reply.kind = "json"
            /\ (\E j \in CallsTo(t, "transcript") : calls[t][j].reply.kind = "raised") =>
                 /\ CallsTo(t, "generate") = {}
                 /\ Done(t) => Failed(t)

----------------------------------------------------------------------------
ErrorPayload(call) ==
    /\ call.api \in {"search", "videos", "commentThreads"}
    /\ call.reply.kind = "json"
    /\ "error" \in DOMAIN call.reply.data

\* the prefix each handler puts before the detail of a failure
OperationPrefix(v, op) ==
    IF v = "main"
    THEN CASE op = "get-transcript" -> "Transcript error: "
           [] op = "summarize" -> "Summarization error: "
           [] op = "query" -> "Query error: "
           [] op = "search" -> "Search error: "
           [] op = "get-comments" -> "Comments error: "
           [] op = "get-likes" -> "Likes error: "
    ELSE CASE op = "get-transcript" -> "Failed to retrieve transcript: "
           [] op = "summarize" -> "Summarization failed: "
           [] op = "query" -> "Query failed: "
           [] op = "search" -> "Search failed: "
           [] op = "get-comments" -> "Failed to get comments: "

(* C4: an invocation that received a provider response carrying an error
   payload ends as a failure with the operation's prefix, never as a success. *)
C4_ErrorPayloadFailsInvocation ==
    \A t \in Tasks :
        (Done(t) /\ \E i \in 1..Len(calls[t]) : ErrorPayload(calls[t][i])) =>
            /\ Failed(t)
            /\ result[t].message[1] = OperationPrefix(variant, Op(t))

----------------------------------------------------------------------------
\* the candidate ids a stage-1 answer carries, read off the answer itself
Candidates(reply) ==
    IF reply.kind = "json" /\ "error" \notin DOMAIN reply.data /\ "items" \in DOMAIN reply.data
    THEN [i \in 1..Len(reply.data.items) |-> reply.data.items[i].id.videoId]
    ELSE <<>>

RECURSIVE CommaSeparated(_)
CommaSeparated(ids) ==
    IF ids = <<>> THEN <<>>
    ELSE IF Len(ids) = 1 THEN <<ids[1]>>
    ELSE <<ids[1], ",">> \o CommaSeparated(Tail(ids))

\* the two-stage protocol of a finished search that made its stage-1 call
TwoStage(t) ==
    LET ids == Candidates(calls[t][1].reply)
        stage2 == CallsTo(t, "videos")
    IN  /\ calls[t][1].api = "search"
        /\ Cardinality(stage2) <= 1
        /\ (stage2 # {}) <=> (ids # <<>>)
        /\ \A i \in stage2 : calls[t][i].params.id = CommaSeparated(ids)
        /\ (calls[t][1].reply.kind = "json" /\ "error" \notin DOMAIN calls[t][1].reply.data
              /\ ids = <<>>) =>
             /\ Ok(t)
             /\ ResultData(t).videos = <<>>
             /\ ResultData(t).total_results = 0

(* C5 as stated: every search invocation makes exactly one stage-1 call, and
   one stage-2 call with all candidate ids iff stage 1 returned candidates;
   with no candidates it returns videos = [] and total 0 without stage 2. *)
C5_ExactlyOneStage1Call ==
    \A t \in Tasks :
        (Done(t) /\ Op(t) = "search") =>
            /\ Cardinality(CallsTo(t, "search")) = 1
            /\ TwoStage(t)

(* C5 amended: a search invocation makes exactly one stage-1 call when the
   video-platform credential is configured and no call at all when it is
   absent; when it made the stage-1 call, it makes the stage-2 call exactly
   once, with all candidate ids in one request, iff stage 1 returned without
   error and with at least one candidate, and with zero candidates it
   returns videos = [] and total 0 without a stage-2 call. *)
C5_TwoStageProtocol ==
    \A t \in Tasks :
        (Done(t) /\ Op(t) = "search") =>
            IF YOUTUBE_API_KEY
            THEN /\ Cardinality(CallsTo(t, "search")) = 1
                 /\ TwoStage(t)
            ELSE calls[t] = <<>> /\ Failed(t)

C5_Witness ==
    \E t \in Tasks :
        /\ Done(t) /\ Op(t) = "search"
        /\ Len(calls[t]) = 2
        /\ Len(Candidates(calls[t][1].reply)) = 2

----------------------------------------------------------------------------
(* C6: for a maxResults input above 50 the stage-1 request carries exactly
   50, and the request is made. *)
C6_CappedAtFifty ==
    \A t \in Tasks :
        (Op(t) = "search" /\ args[t].max_results > 50) =>
            /\ \A i \in CallsTo(t, "search") : calls[t][i].params.maxResults = 50
            /\ (YOUTUBE_API_KEY => CallsTo(t, "search") # {})

C6_Witness ==
    \E t \in Tasks :
        /\ Op(t) = "search" /\ args[t].max_results = 100
        /\ \E i \in CallsTo(t, "search") : calls[t][i].params.maxResults = 50

----------------------------------------------------------------------------
(* C7 as stated: for every integer input the maxResults sent to the search
   endpoint lies in 1..50 and the one sent to the comment-thread endpoint
   lies in 1..100. *)
C7_ClampedFromBelow ==
    \A t \in Tasks :
        /\ Op(t) = "search" =>
             \A i \in CallsTo(t, "search") : calls[t][i].params.maxResults \in 1..50
        /\ Op(t) = "get-comments" =>
             \A i \in CallsTo(t, "commentThreads") : calls[t][i].params.maxResults \in 1..100

(* C7 amended: the value sent is the input capped from above only: at most
   50 for search and at most 100 for comments, in 1..50 (1..100) when the
   input is at least 1, and the input itself, unchanged, when it is 0 or
   negative. *)
C7_CappedFromAboveOnly ==
    \A t \in Tasks :
        /\ Op(t) = "search" =>
             \A i \in CallsTo(t, "search") :
                LET sent == calls[t][i].params.maxResults IN
                /\ sent <= 50
                /\ args[t].max_results >= 1 => sent \in 1..50
                /\ args[t].max_results < 1 => sent = args[t].max_results
        /\ Op(t) = "get-comments" =>
             \A i \in CallsTo(t, "commentThreads") :
                LET sent == calls[t][i].params.maxResults IN
                /\ sent <= 100
                /\ args[t].max_comments >= 1 => sent \in 1..100
                /\ args[t].max_comments < 1 => sent = args[t].max_comments

C7_Witness ==
    \E t \in Tasks :
        /\ Op(t) = "get-comments" /\ args[t].max_comments = 0
        /\ \E i \in CallsTo(t, "commentThreads") : calls[t][i].params.maxResults = 0

----------------------------------------------------------------------------
\* a video-detail answer with no error field and an empty or absent items list
EmptyDetail(reply) ==
    /\ reply.kind = "json"
    /\ "error" \notin DOMAIN reply.data
    /\ ("items" \in DOMAIN reply.data => reply.data.items = <<>>)

(* C8: get-likes on a video-detail answer without error and without items
   fails with a not-found message naming the requested video id; it never
   returns a stats envelope. *)
C8_LikesNotFound ==
    \A t \in Tasks :
        (Done(t) /\ Op(t) = "get-likes" /\ calls[t] # <<>> /\ EmptyDetail(calls[t][1].reply)) =>
            /\ Failed(t)
            /\ result[t].message = <<"Likes error: ", "Video not found: ", args[t].video_id>>

C8_Witness ==
    \E t \in Tasks :
        /\ Failed(t) /\ Op(t) = "get-likes" /\ calls[t] # <<>>
        /\ calls[t][1].reply = Json([items |-> <<>>])

----------------------------------------------------------------------------
RECURSIVE SpaceSeparated(_)
SpaceSeparated(segments) ==
    IF segments = <<>> THEN <<>>
    ELSE IF Len(segments) = 1 THEN segments[1].text
    ELSE segments[1].text \o <<" ">> \o SpaceSeparated(Tail(segments))

\* the generation call of a finished summarize or query
Generation(t) == calls[t][Len(calls[t])]

SummaryData(t) ==
    [video_id |-> args[t].video_id,
     summary |-> Generation(t).reply.data.text,
     model |-> "gemini-2.0-flash"]

(* C9 as stated: a successful summarize of a fetched transcript returns the envelope
   {type: "summary", data: {videoId, summary: T, model}} with T the generated
   text, and its prompt contains the segment texts joined by single spaces. *)
C9_SummaryEnvelopeInBothVariants ==
    \A t \in Tasks :
        (Ok(t) /\ Op(t) = "summarize" /\ Fetched(t)) =>
            /\ Generation(t).api = "generate"
            /\ result[t].elems = <<[type |-> "summary", data |-> SummaryData(t)]>>
            /\ Contains(Generation(t).params.prompt, SpaceSeparated(captions[args[t].video_id]))

(* C9 amended: in variant main a successful summarize of a fetched transcript
   returns the envelope
   {type: "summary", data: {videoId, summary: T, model}} and its prompt
   contains the segment texts joined in order by single spaces; in variant
   main_2 it returns the bare dictionary {videoId, summary: T, model} and
   its prompt contains the transcript as one "[start-end] text" line per
   segment, the lines joined by newlines. *)
C9_SummaryOfJoinedTranscript ==
    \A t \in Tasks :
        (Ok(t) /\ Op(t) = "summarize" /\ Fetched(t)) =>
            /\ Generation(t).api = "generate"
            /\ Generation(t).params.model = "gemini-2.0-flash"
            /\ IF variant = "main"
               THEN /\ result[t].elems = <<[type |-> "summary", data |-> SummaryData(t)]>>
                    /\ Generation(t).params.prompt =
                         <<"Summarize this YouTube video transcript in 3-5 bullet points:\n\n">>
                            \o SpaceSeparated(captions[args[t].video_id])
               ELSE /\ result[t].elems = <<SummaryData(t)>>
                    /\ Contains(Generation(t).params.prompt,
                                Join(Lines(captions[args[t].video_id]), <<"\n">>))

C9_Witness ==
    \E t \in Tasks :
        /\ variant = "main" /\ Ok(t) /\ Op(t) = "summarize"
        /\ args[t].video_id = "abc123"
        /\ captions["abc123"] = HelloWorld
        /\ Generation(t).params.prompt[2] = "Hello"
        /\ Generation(t).params.prompt[3] = " "
        /\ Generation(t).params.prompt[4] = "world"
        /\ result[t].elems[1].data.summary = <<"- point one">>

----------------------------------------------------------------------------
\* the provider answered the generation call with an empty or absent text
EmptyGeneration(call) ==
    /\ call.api = "generate"
    /\ call.reply.kind = "json"
    /\ ("text" \in DOMAIN call.reply.data => call.reply.data.text = <<>>)

GenerationUnavailableTexts ==
    {"No summary generated - empty response from Gemini",
     "No response generated - empty response from Gemini"}

GeneratedText(t) ==
    IF Op(t) = "summarize" THEN ResultData(t).summary ELSE ResultData(t).response

(* C10: when the provider answers with an empty or absent text, summarize
   and query fail with the generation-unavailable failure; no successful
   summary or query response carries empty generated text. *)
C10_EmptyGenerationFails ==
    \A t \in Tasks :
        (Done(t) /\ Generative(t)) =>
            /\ (\E i \in 1..Len(calls[t]) : EmptyGeneration(calls[t][i])) =>
                 /\ Failed(t)
                 /\ result[t].message[1] = OperationPrefix(variant, Op(t))
                 /\ result[t].message[2] \in GenerationUnavailableTexts
            /\ Ok(t) => GeneratedText(t) # <<>>

C10_Witness ==
    \E t \in Tasks :
        /\ Failed(t) /\ Op(t) = "query"
        /\ calls[t] # <<>>
        /\ Generation(t).api = "generate"
        /\ Generation(t).reply = Json(EmptyRec)

----------------------------------------------------------------------------
\* the operations that use the video-platform endpoints: the three metadata
\* tools, and in main_2 summarize and query through video_metadata_resource
UsesVideoPlatform(t) ==
    \/ Op(t) \in {"search", "get-comments", "get-likes"}
    \/ variant = "main_2" /\ Generative(t)

VideoPlatformApis == {"search", "videos", "commentThreads"}

MissingCredentialTexts == ConfigurationTexts \cup {NoKey[1]}

(* C11: with the video-platform credential absent, every operation that
   depends on the video-platform endpoints sends no request to them and
   ends in a configuration failure (the text naming a missing credential),
   never in a success. *)
C11_NoRequestWithoutVideoCredential ==
    \A t \in Tasks :
        (UsesVideoPlatform(t) /\ ~YOUTUBE_API_KEY) =>
            /\ \A api \in VideoPlatformApis : CallsTo(t, api) = {}
            /\ Done(t) =>
                 /\ Failed(t)
                 /\ result[t].message[2] \in MissingCredentialTexts

----------------------------------------------------------------------------
\* the three counts of an output video record, under the names of the
\* statistics they are read from
Counts(video) ==
    IF variant = "main"
    THEN [viewCount |-> video.views, likeCount |-> video.likes,
          commentCount |-> video.comments]
    ELSE [viewCount |-> video.stats.views, likeCount |-> video.stats.likes,
          commentCount |-> video.stats.comments]

StatisticNames == {"viewCount", "likeCount", "commentCount"}

\* the video-detail items of a stage-2 reply
DetailItems(reply) ==
    IF reply.kind = "json" /\ "items" \in DOMAIN reply.data
    THEN reply.data.items ELSE <<>>

(* C13: in a finished search, the output holds one video record per
   video-detail item of the stage-2 reply, in order; each of its three
   counts is the item's statistic when the item has it, and the string "0"
   when the item lacks it. *)
C13_MissingCountsDefaultToZero ==
    \A t \in Tasks :
        (Ok(t) /\ Op(t) = "search" /\ Len(calls[t]) = 2) =>
            LET items  == DetailItems(calls[t][2].reply)
                videos == ResultData(t).videos
            IN  /\ Len(videos) = Len(items)
                /\ \A i \in 1..Len(items) : \A name \in StatisticNames :
                     IF name \in DOMAIN items[i].statistics
                     THEN Counts(videos[i])[name] = items[i].statistics[name]
                     ELSE Counts(videos[i])[name] = "0"

\* a search returned two records: one passing a present likeCount through
\* next to a defaulted viewCount, one with all three counts defaulted
C13_Witness ==
    \E t \in Tasks :
        /\ Ok(t) /\ Op(t) = "search" /\ Len(calls[t]) = 2
        /\ LET items  == DetailItems(calls[t][2].reply)
               videos == ResultData(t).videos
           IN  /\ Len(items) = 2
               /\ DOMAIN items[1].statistics = {"likeCount"}
               /\ Counts(videos[1]).likeCount = "2"
               /\ Counts(videos[1]).viewCount = "0"
               /\ items[2].statistics = EmptyRec
               /\ Counts(videos[2]).commentCount = "0"

----------------------------------------------------------------------------
\* every generation call in the log of a running or finished invocation
GenerationCallHandles ==
    UNION {{calls[t][i].params.client : i \in CallsTo(t, "generate")} : t \in Concurrent}

(* C12: under every interleaving of concurrent summarize and query
   invocations, the generation client is constructed at most once, a
   constructed handle is never replaced or reset to absent, and every
   generation call in any invocation's log was made on the shared handle. *)
C12_ConstructOnce ==
    /\ [](clients_built <= 1)
    /\ [](GenerationCallHandles \subseteq {genai_client} \ {0})
    /\ [][genai_client # 0 => genai_client' = genai_client]_vars

\* main.py: a summarize suspended at its await after constructing the
\* client, while a query that started later has generated on that handle
C12_Witness ==
    \E t, u \in Concurrent :
        /\ variant = "main"
        /\ pc[t] = "summarize_fetch"
        /\ Ok(u) /\ Op(u) = "query"
        /\ \E i \in CallsTo(u, "generate") : calls[u][i].params.client = 1
        /\ clients_built = 1

----------------------------------------------------------------------------
\* two invocations of get-transcript with identical inputs
SameTranscriptRequest(t, u) ==
    /\ Done(t) /\ Done(u)
    /\ Op(t) = "get-transcript" /\ Op(u) = "get-transcript"
    /\ args[t].video_id = args[u].video_id
    /\ args[t].languages = args[u].languages

(* C14: the upstream captions are never changed by an invocation, and two
   get-transcript invocations with the same videoId and languages end
   alike: both fail or both succeed, each after exactly one fetch of its
   own (no cache), and on success both carry the same segment sequence,
   which is the upstream's sequence for that video, unmodified. *)
C14_RepeatedTranscriptIdentical ==
    /\ [][captions' = captions]_vars
    /\ [](\A t, u \in Concurrent :
            SameTranscriptRequest(t, u) =>
                /\ result[t].status = result[u].status
                /\ Len(calls[t]) = 1 /\ calls[t][1].api = "transcript"
                /\ calls[t][1].params =
                     [video_id |-> args[t].video_id, languages |-> args[t].languages]
                /\ Ok(t) =>
                     /\ ResultData(t).segments = ResultData(u).segments
                     /\ ResultData(t).segments = captions[args[t].video_id])

\* two finished successful get-transcript invocations for the same video,
\* side by side, with a non-empty segment sequence
C14_Witness ==
    \E t, u \in Concurrent :
        /\ t # u
        /\ SameTranscriptRequest(t, u)
        /\ Ok(t) /\ Ok(u)
        /\ Len(ResultData(t).segments) > 0
        /\ ResultData(u).segments = ResultData(t).segments

----------------------------------------------------------------------------
\* a step writes no process-wide state, or constructs the generation client
\* where there was none and none had been constructed before
WritesOnlyTheClientOnce ==
    /\ variant' = variant
    /\ GEMINI_API_KEY' = GEMINI_API_KEY
    /\ YOUTUBE_API_KEY' = YOUTUBE_API_KEY
    /\ \/ genai_client' = genai_client /\ clients_built' = clients_built
       \/ /\ genai_client = 0 /\ clients_built = 0
          /\ genai_client' # 0 /\ clients_built' = 1

\* what an invocation received from the outside: the reply of each call
Replies(t) == [i \in 1..Len(calls[t]) |-> calls[t][i].reply]

\* the outcome of a finished invocation, leaving out the reading of the
\* clock that main_2's get-transcript attaches to its result
Outcome(t) ==
    IF Ok(t) /\ ~result[t].wrapped /\ "retrieved_at" \in DOMAIN result[t].elems[1]
    THEN [k \in DOMAIN result[t].elems[1] \ {"retrieved_at"} |-> result[t].elems[1][k]]
    ELSE result[t]

\* two finished invocations of the same operation with the same arguments
\* that received the same replies
SameInvocation(t, u) ==
    /\ Done(t) /\ Done(u)
    /\ args[t] = args[u]
    /\ Replies(t) = Replies(u)

(* C15: no step of any invocation, successful or failed, writes process-wide
   state other than constructing the generation client once; and whatever
   invocations ran or failed before, two invocations of the same operation
   with the same arguments and the same replies end in the same outcome. *)
C15_InvocationsIndependent ==
    /\ [][WritesOnlyTheClientOnce]_vars
    /\ [](\A t, u \in Concurrent : SameInvocation(t, u) => Outcome(t) = Outcome(u))

\* main.py: a summarize that failed in generation after constructing the
\* client, next to a summarize of the same video that succeeded on it
C15_Witness ==
    \E t, u \in Concurrent :
        /\ variant = "main"
        /\ Failed(t) /\ Op(t) = "summarize"
        /\ CallsTo(t, "generate") # {}
        /\ Ok(u) /\ Op(u) = "summarize"
        /\ args[u] = args[t]
        /\ genai_client = 1 /\ clients_built = 1

====
